---- MODULE Spec2Model ----
(***************************************************************************)
(* The Reustmann interpreter (src/src/interpreter.rs) as a state machine:  *)
(* a host constructs an Interpreter, loads a Program into it, and calls    *)
(* reset and step.  Cells are u8, PC and SP are usize indices, NZ is a     *)
(* flag.  The translation of source characters to opcodes follows          *)
(* src/src/instruction/mod.rs.                                             *)
(***************************************************************************)
EXTENDS Integers, Sequences, FiniteSets, TLC

(* Bounds of the exploration. *)
MaxL == 3
MaxSteps == 3

(* The number of commands a debugger session gives. *)
MaxCommands == 4

(* The longest memory whose cells the model enumerates. *)
MaxCells == 15

MaxInput == 3

(* Numeric opcodes of module op_codes, the discriminants of enum Instruction. *)
NOP == 0
RESET == 1
HALT == 2
IN_ == 3
OUT == 4
POP == 5
DUP == 6
PUSHPC == 7
POPPC == 8
POPSP == 9
SPTGT == 10
PUSHNZ == 11
SWAP == 12
PUSH0 == 13
ADD == 14
SUB == 15
INC == 16
DEC == 17
MUL == 18
DIV == 19
XOR == 20
AND == 21
OR == 22
SHL == 23
SHR == 24
NOT == 25
BZ == 26
BNZ == 27
BEQ == 28
BGT == 29
BLT == 30
BGE == 31
LOOP == 32
ENDL == 33
BRAN == 34
BRAP == 35
TARGET == 36
SKIP1 == 37
SKIP2 == 38
SKIP3 == 39
SKIP4 == 40
SKIP5 == 41
SKIP6 == 42
SKIP7 == 43
SKIP8 == 44
SKIP9 == 45

(* Short mnemonics of module mnemonics, each character by its code point. *)
mnemonics_NOP == 59
mnemonics_RESET == 82
mnemonics_HALT == 72
mnemonics_IN == 73
mnemonics_OUT == 79
mnemonics_POP == 112
mnemonics_DUP == 68
mnemonics_PUSHPC == 67
mnemonics_POPPC == 99
mnemonics_POPSP == 89
mnemonics_SPTGT == 71
mnemonics_PUSHNZ == 80
mnemonics_SWAP == 83
mnemonics_PUSH0 == 48
mnemonics_ADD == 43
mnemonics_SUB == 45
mnemonics_INC == 46
mnemonics_DEC == 44
mnemonics_MUL == 42
mnemonics_DIV == 47
mnemonics_XOR == 94
mnemonics_AND == 38
mnemonics_OR == 124
mnemonics_SHL == 40
mnemonics_SHR == 41
mnemonics_NOT == 126
mnemonics_BZ == 90
mnemonics_BNZ == 122
mnemonics_BEQ == 61
mnemonics_BGT == 62
mnemonics_BLT == 123
mnemonics_BGE == 125
mnemonics_LOOP == 76
mnemonics_ENDL == 93
mnemonics_BRAN == 66
mnemonics_BRAP == 98
mnemonics_TARGET == 84
mnemonics_SKIP1 == 49
mnemonics_SKIP2 == 50
mnemonics_SKIP3 == 51
mnemonics_SKIP4 == 52
mnemonics_SKIP5 == 53
mnemonics_SKIP6 == 54
mnemonics_SKIP7 == 55
mnemonics_SKIP8 == 56
mnemonics_SKIP9 == 57

ALL_MNEMONICS ==
    <<mnemonics_NOP, mnemonics_RESET, mnemonics_HALT, mnemonics_IN,
      mnemonics_OUT, mnemonics_POP, mnemonics_DUP, mnemonics_PUSHPC,
      mnemonics_POPPC, mnemonics_POPSP, mnemonics_SPTGT, mnemonics_PUSHNZ,
      mnemonics_SWAP, mnemonics_PUSH0, mnemonics_ADD, mnemonics_SUB,
      mnemonics_INC, mnemonics_DEC, mnemonics_MUL, mnemonics_DIV,
      mnemonics_XOR, mnemonics_AND, mnemonics_OR, mnemonics_SHL,
      mnemonics_SHR, mnemonics_NOT, mnemonics_BZ, mnemonics_BNZ,
      mnemonics_BEQ, mnemonics_BGT, mnemonics_BLT, mnemonics_BGE,
      mnemonics_LOOP, mnemonics_ENDL, mnemonics_BRAN, mnemonics_BRAP,
      mnemonics_TARGET, mnemonics_SKIP1, mnemonics_SKIP2, mnemonics_SKIP3,
      mnemonics_SKIP4, mnemonics_SKIP5, mnemonics_SKIP6, mnemonics_SKIP7,
      mnemonics_SKIP8, mnemonics_SKIP9>>

is_valid_mnemonic(mnemo) ==
    mnemo \in {mnemonics_NOP, mnemonics_RESET, mnemonics_HALT, mnemonics_IN,
               mnemonics_OUT, mnemonics_POP, mnemonics_DUP, mnemonics_PUSHPC,
               mnemonics_POPPC, mnemonics_POPSP, mnemonics_SPTGT, mnemonics_PUSHNZ,
               mnemonics_SWAP, mnemonics_PUSH0, mnemonics_ADD, mnemonics_SUB,
               mnemonics_INC, mnemonics_DEC, mnemonics_MUL, mnemonics_DIV,
               mnemonics_XOR, mnemonics_AND, mnemonics_OR, mnemonics_SHL,
               mnemonics_SHR, mnemonics_NOT, mnemonics_BZ, mnemonics_BNZ,
               mnemonics_BEQ, mnemonics_BGT, mnemonics_BLT, mnemonics_BGE,
               mnemonics_LOOP, mnemonics_ENDL, mnemonics_BRAN, mnemonics_BRAP,
               mnemonics_TARGET, mnemonics_SKIP1, mnemonics_SKIP2, mnemonics_SKIP3,
               mnemonics_SKIP4, mnemonics_SKIP5, mnemonics_SKIP6, mnemonics_SKIP7,
               mnemonics_SKIP8, mnemonics_SKIP9}

Instruction_from_Mnemonic(c) ==
    CASE c = mnemonics_RESET -> "Reset"
      [] c = mnemonics_HALT -> "Halt"
      [] c = mnemonics_IN -> "In"
      [] c = mnemonics_OUT -> "Out"
      [] c = mnemonics_POP -> "Pop"
      [] c = mnemonics_DUP -> "Dup"
      [] c = mnemonics_PUSHPC -> "PushPc"
      [] c = mnemonics_POPPC -> "PopPc"
      [] c = mnemonics_POPSP -> "PopSp"
      [] c = mnemonics_SPTGT -> "SpTgt"
      [] c = mnemonics_PUSHNZ -> "PushNz"
      [] c = mnemonics_SWAP -> "Swap"
      [] c = mnemonics_PUSH0 -> "Push0"
      [] c = mnemonics_ADD -> "Add"
      [] c = mnemonics_SUB -> "Sub"
      [] c = mnemonics_INC -> "Inc"
      [] c = mnemonics_DEC -> "Dec"
      [] c = mnemonics_MUL -> "Mul"
      [] c = mnemonics_DIV -> "Div"
      [] c = mnemonics_XOR -> "Xor"
      [] c = mnemonics_AND -> "And"
      [] c = mnemonics_OR -> "Or"
      [] c = mnemonics_SHL -> "Shl"
      [] c = mnemonics_SHR -> "Shr"
      [] c = mnemonics_NOT -> "Not"
      [] c = mnemonics_BZ -> "Bz"
      [] c = mnemonics_BNZ -> "Bnz"
      [] c = mnemonics_BEQ -> "Beq"
      [] c = mnemonics_BGT -> "Bgt"
      [] c = mnemonics_BLT -> "Blt"
      [] c = mnemonics_BGE -> "Bge"
      [] c = mnemonics_LOOP -> "Loop"
      [] c = mnemonics_ENDL -> "EndL"
      [] c = mnemonics_BRAN -> "BraN"
      [] c = mnemonics_BRAP -> "BraP"
      [] c = mnemonics_TARGET -> "Target"
      [] c = mnemonics_SKIP1 -> "Skip1"
      [] c = mnemonics_SKIP2 -> "Skip2"
      [] c = mnemonics_SKIP3 -> "Skip3"
      [] c = mnemonics_SKIP4 -> "Skip4"
      [] c = mnemonics_SKIP5 -> "Skip5"
      [] c = mnemonics_SKIP6 -> "Skip6"
      [] c = mnemonics_SKIP7 -> "Skip7"
      [] c = mnemonics_SKIP8 -> "Skip8"
      [] c = mnemonics_SKIP9 -> "Skip9"
      [] OTHER -> "Nop"

OpCode_from_Instruction(i) ==
    CASE i = "Nop" -> NOP
      [] i = "Reset" -> RESET
      [] i = "Halt" -> HALT
      [] i = "In" -> IN_
      [] i = "Out" -> OUT
      [] i = "Pop" -> POP
      [] i = "Dup" -> DUP
      [] i = "PushPc" -> PUSHPC
      [] i = "PopPc" -> POPPC
      [] i = "PopSp" -> POPSP
      [] i = "SpTgt" -> SPTGT
      [] i = "PushNz" -> PUSHNZ
      [] i = "Swap" -> SWAP
      [] i = "Push0" -> PUSH0
      [] i = "Add" -> ADD
      [] i = "Sub" -> SUB
      [] i = "Inc" -> INC
      [] i = "Dec" -> DEC
      [] i = "Mul" -> MUL
      [] i = "Div" -> DIV
      [] i = "Xor" -> XOR
      [] i = "And" -> AND
      [] i = "Or" -> OR
      [] i = "Shl" -> SHL
      [] i = "Shr" -> SHR
      [] i = "Not" -> NOT
      [] i = "Bz" -> BZ
      [] i = "Bnz" -> BNZ
      [] i = "Beq" -> BEQ
      [] i = "Bgt" -> BGT
      [] i = "Blt" -> BLT
      [] i = "Bge" -> BGE
      [] i = "Loop" -> LOOP
      [] i = "EndL" -> ENDL
      [] i = "BraN" -> BRAN
      [] i = "BraP" -> BRAP
      [] i = "Target" -> TARGET
      [] i = "Skip1" -> SKIP1
      [] i = "Skip2" -> SKIP2
      [] i = "Skip3" -> SKIP3
      [] i = "Skip4" -> SKIP4
      [] i = "Skip5" -> SKIP5
      [] i = "Skip6" -> SKIP6
      [] i = "Skip7" -> SKIP7
      [] i = "Skip8" -> SKIP8
      [] i = "Skip9" -> SKIP9

(* Variant: every instruction written as the NOP mnemonic. *)
Mnemonic_from_Instruction_nop(i) == mnemonics_NOP

(* impl From<Instruction> for Mnemonic *)
Mnemonic_from_Instruction(i) ==
    CASE i = "Nop" -> mnemonics_NOP
      [] i = "Reset" -> mnemonics_RESET
      [] i = "Halt" -> mnemonics_HALT
      [] i = "In" -> mnemonics_IN
      [] i = "Out" -> mnemonics_OUT
      [] i = "Pop" -> mnemonics_POP
      [] i = "Dup" -> mnemonics_DUP
      [] i = "PushPc" -> mnemonics_PUSHPC
      [] i = "PopPc" -> mnemonics_POPPC
      [] i = "PopSp" -> mnemonics_POPSP
      [] i = "SpTgt" -> mnemonics_SPTGT
      [] i = "PushNz" -> mnemonics_PUSHNZ
      [] i = "Swap" -> mnemonics_SWAP
      [] i = "Push0" -> mnemonics_PUSH0
      [] i = "Add" -> mnemonics_ADD
      [] i = "Sub" -> mnemonics_SUB
      [] i = "Inc" -> mnemonics_INC
      [] i = "Dec" -> mnemonics_DEC
      [] i = "Mul" -> mnemonics_MUL
      [] i = "Div" -> mnemonics_DIV
      [] i = "Xor" -> mnemonics_XOR
      [] i = "And" -> mnemonics_AND
      [] i = "Or" -> mnemonics_OR
      [] i = "Shl" -> mnemonics_SHL
      [] i = "Shr" -> mnemonics_SHR
      [] i = "Not" -> mnemonics_NOT
      [] i = "Bz" -> mnemonics_BZ
      [] i = "Bnz" -> mnemonics_BNZ
      [] i = "Beq" -> mnemonics_BEQ
      [] i = "Bgt" -> mnemonics_BGT
      [] i = "Blt" -> mnemonics_BLT
      [] i = "Bge" -> mnemonics_BGE
      [] i = "Loop" -> mnemonics_LOOP
      [] i = "EndL" -> mnemonics_ENDL
      [] i = "BraN" -> mnemonics_BRAN
      [] i = "BraP" -> mnemonics_BRAP
      [] i = "Target" -> mnemonics_TARGET
      [] i = "Skip1" -> mnemonics_SKIP1
      [] i = "Skip2" -> mnemonics_SKIP2
      [] i = "Skip3" -> mnemonics_SKIP3
      [] i = "Skip4" -> mnemonics_SKIP4
      [] i = "Skip5" -> mnemonics_SKIP5
      [] i = "Skip6" -> mnemonics_SKIP6
      [] i = "Skip7" -> mnemonics_SKIP7
      [] i = "Skip8" -> mnemonics_SKIP8
      [] i = "Skip9" -> mnemonics_SKIP9

(* impl From<OpCode> for Instruction: any u8, `op_codes::NOP | _ => Nop`. *)
Instruction_from_OpCode(c) ==
    CASE c = RESET -> "Reset"
      [] c = HALT -> "Halt"
      [] c = IN_ -> "In"
      [] c = OUT -> "Out"
      [] c = POP -> "Pop"
      [] c = DUP -> "Dup"
      [] c = PUSHPC -> "PushPc"
      [] c = POPPC -> "PopPc"
      [] c = POPSP -> "PopSp"
      [] c = SPTGT -> "SpTgt"
      [] c = PUSHNZ -> "PushNz"
      [] c = SWAP -> "Swap"
      [] c = PUSH0 -> "Push0"
      [] c = ADD -> "Add"
      [] c = SUB -> "Sub"
      [] c = INC -> "Inc"
      [] c = DEC -> "Dec"
      [] c = MUL -> "Mul"
      [] c = DIV -> "Div"
      [] c = XOR -> "Xor"
      [] c = AND -> "And"
      [] c = OR -> "Or"
      [] c = SHL -> "Shl"
      [] c = SHR -> "Shr"
      [] c = NOT -> "Not"
      [] c = BZ -> "Bz"
      [] c = BNZ -> "Bnz"
      [] c = BEQ -> "Beq"
      [] c = BGT -> "Bgt"
      [] c = BLT -> "Blt"
      [] c = BGE -> "Bge"
      [] c = LOOP -> "Loop"
      [] c = ENDL -> "EndL"
      [] c = BRAN -> "BraN"
      [] c = BRAP -> "BraP"
      [] c = TARGET -> "Target"
      [] c = SKIP1 -> "Skip1"
      [] c = SKIP2 -> "Skip2"
      [] c = SKIP3 -> "Skip3"
      [] c = SKIP4 -> "Skip4"
      [] c = SKIP5 -> "Skip5"
      [] c = SKIP6 -> "Skip6"
      [] c = SKIP7 -> "Skip7"
      [] c = SKIP8 -> "Skip8"
      [] c = SKIP9 -> "Skip9"
      [] OTHER -> "Nop"

(***************************************************************************)
(* usize values passed to Interpreter::new.  A value v is kept as the pair *)
(* of its halves, v = hi * 2^16 + lo with 0 <= lo < 2^16, so that lengths  *)
(* around 2^32 are compared exactly.                                       *)
(***************************************************************************)
usize(h, l) == [hi |-> h, lo |-> l]

usize_gt(a, b) == a.hi > b.hi \/ (a.hi = b.hi /\ a.lo > b.lo)

u32_MAX == usize(65535, 65535)

(* Error values of Interpreter::new. *)
ErrArchLength == "Arch length need to be in the range [1..2^32)"

ErrArchWidth == "Arch width need to be in the range [6..32)"

(***************************************************************************)
(* u8 arithmetic.  `+`, `-` and `*` on u8 panic on overflow when the build *)
(* has overflow checks (debug) and wrap otherwise (release); wrapping_add, *)
(* wrapping_sub, `<<`, `>>`, `!`, `^`, `&`, `|` and `/` never overflow.    *)
(***************************************************************************)
u8_overflows(op, a, b) ==
    CASE op = ADD -> a + b > 255
      [] op = SUB -> a < b
      [] op = MUL -> a * b > 255
      [] OTHER -> FALSE

u8_wrapping(x) == x % 256

RECURSIVE u8_bits(_, _, _, _)
u8_bits(op, a, b, n) ==
    IF n = 0 THEN 0
    ELSE LET x == a % 2
             y == b % 2
             bit == CASE op = XOR -> (x + y) % 2
                      [] op = AND -> x * y
                      [] op = OR -> IF x + y > 0 THEN 1 ELSE 0
         IN bit + 2 * u8_bits(op, a \div 2, b \div 2, n - 1)

u8_not(a) == 255 - a

(***************************************************************************)
(* struct Interpreter.  `self` is the record of its fields; memory is the  *)
(* Vec<OpCode>, a function on 0 .. len-1.                                  *)
(***************************************************************************)
Interpreter(w, mem, p, s, f) ==
    [arch_width |-> w, memory |-> mem, pc |-> p, sp |-> s, nz |-> f]

memory_len(self) == Cardinality(DOMAIN self.memory)

NoInterpreter == Interpreter(0, [i \in {} |-> NOP], 0, 0, FALSE)

(* What a call gives back: the interpreter after it, the Statement        *)
(* (opcode, success) it returns, or the fact that it panicked; and what    *)
(* the call did to its channels: the number of bytes it took from the      *)
(* reader and the bytes it handed to the writer.                           *)
Returns(self, op, succeeded) ==
    [self |-> self, statement |-> <<op, succeeded>>, panicked |-> FALSE,
     consumed |-> 0, written |-> <<>>]

Panics(self) ==
    [self |-> self, statement |-> <<>>, panicked |-> TRUE,
     consumed |-> 0, written |-> <<>>]

(* Outcomes of input.read(&mut buffer) on a one-byte buffer and of         *)
(* output.write(&[val]).                                                   *)
ReadOk(b) == [res |-> "Ok", n |-> 1, byte |-> b]

ReadEof == [res |-> "Ok", n |-> 0, byte |-> 0]

ReadErr == [res |-> "Err", n |-> 0, byte |-> 0]

NoRead == [res |-> "none", n |-> 0, byte |-> 0]

WriteResults == {"Ok", "Err"}

(* Variant: the stack pointer stays where it is. *)
decrement_sp_stay(self) == self

(* Variant: the flag is left as it is. *)
reset_keep_nz(self) ==
    Returns([self EXCEPT !.pc = 0, !.sp = 0], RESET, TRUE)

reset(self) ==
    Returns([self EXCEPT !.pc = 0, !.sp = 0, !.nz = FALSE], RESET, TRUE)

(* Variant: the advance without the reduction modulo the memory length. *)
increment_pc_n_nomod(self, n) ==
    [self EXCEPT !.pc = self.pc + n]

(* Variant: one length is taken off at most. *)
increment_pc_n_once(self, n) ==
    [self EXCEPT !.pc = IF self.pc + n >= memory_len(self)
                        THEN self.pc + n - memory_len(self)
                        ELSE self.pc + n]

(* Variant: PC lands one cell short. *)
increment_pc_n_short(self, n) ==
    [self EXCEPT !.pc = (self.pc + n + memory_len(self) - 1) % memory_len(self)]

increment_pc_n(self, n) ==
    [self EXCEPT !.pc = (self.pc + n) % memory_len(self)]

increment_pc(self) == increment_pc_n(self, 1)

set_nz(self, val) == [self EXCEPT !.nz = (val # 0)]

decrement_sp(self) ==
    [self EXCEPT !.sp = IF self.sp = 0 THEN memory_len(self) - 1 ELSE self.sp - 1]

increment_sp(self) ==
    [self EXCEPT !.sp = (self.sp + 1) % memory_len(self)]

store(self, val) == [self EXCEPT !.memory[self.sp] = val]

(* for i in from..to { if memory[i] == marker { ...; break } }: the first  *)
(* index met, or -1 when the loop ends without a hit.                      *)
RECURSIVE scan_forward(_, _, _, _)
scan_forward(mem, i, to, marker) ==
    IF i >= to THEN -1
    ELSE IF mem[i] = marker THEN i
    ELSE scan_forward(mem, i + 1, to, marker)

(* Variant: the range walked upward, without rev(). *)
scan_backward_norev(mem, from, marker) == scan_forward(mem, 0, from, marker)

(* for i in (0..from).rev() { if memory[i] == marker { ...; break } }      *)
RECURSIVE scan_backward(_, _, _)
scan_backward(mem, from, marker) ==
    IF from <= 0 THEN -1
    ELSE IF mem[from - 1] = marker THEN from - 1
    ELSE scan_backward(mem, from - 1, marker)

exec_IN(self, op, rd) ==
    LET s1 == decrement_sp(self)
        status == (rd.res # "Err")
        buffer == IF rd.res = "Ok" /\ rd.n = 1 THEN rd.byte ELSE 0
    IN [Returns(increment_pc(set_nz(store(s1, buffer), buffer)), op, status)
           EXCEPT !.consumed = rd.n]

(* Variant: the byte is taken after the stack pointer has moved. *)
exec_OUT_late(self, op, wr) ==
    LET s1 == increment_sp(self)
        val == s1.memory[s1.sp]
        status == (wr # "Err")
    IN [Returns(increment_pc(set_nz(s1, val)), op, status)
           EXCEPT !.written = IF wr = "Ok" THEN <<val>> ELSE <<>>]

(* Variant: the result of output.write is not looked at. *)
exec_OUT_unchecked(self, op, wr) ==
    LET val == self.memory[self.sp]
    IN [Returns(increment_pc(increment_sp(set_nz(self, val))), op, TRUE)
           EXCEPT !.written = IF wr = "Ok" THEN <<val>> ELSE <<>>]

(* output.write(&[val]): a writer that answers Ok has taken the byte. *)
exec_OUT(self, op, wr) ==
    LET val == self.memory[self.sp]
        status == (wr # "Err")
    IN [Returns(increment_pc(increment_sp(set_nz(self, val))), op, status)
           EXCEPT !.written = IF wr = "Ok" THEN <<val>> ELSE <<>>]

exec_POP(self, op) ==
    LET val == self.memory[self.sp]
    IN Returns(increment_pc(increment_sp(set_nz(self, val))), op, TRUE)

exec_DUP(self, op) ==
    LET tmp == self.memory[self.sp]
    IN Returns(increment_pc(set_nz(store(decrement_sp(self), tmp), tmp)), op, TRUE)

exec_PUSHPC(self, op) ==
    LET val == self.pc % 256
    IN Returns(increment_pc(set_nz(store(decrement_sp(self), val), val)), op, TRUE)

exec_POPPC(self, op) ==
    LET s1 == [self EXCEPT !.pc = self.memory[self.sp] % memory_len(self)]
    IN Returns(increment_sp(s1), op, TRUE)

exec_POPSP(self, op) ==
    LET s1 == [self EXCEPT !.sp = self.memory[self.sp] % memory_len(self)]
    IN Returns(increment_pc(s1), op, TRUE)

(* Variant: the index found written to PC instead of SP. *)
exec_SPTGT_pc(self, op) ==
    LET i == IF self.pc < memory_len(self) - 1
             THEN scan_forward(self.memory, self.pc + 1, memory_len(self), TARGET)
             ELSE -1
        s1 == IF i >= 0 THEN [self EXCEPT !.pc = i] ELSE self
    IN Returns(increment_pc(s1), op, TRUE)

exec_SPTGT(self, op) ==
    LET i == IF self.pc < memory_len(self) - 1
             THEN scan_forward(self.memory, self.pc + 1, memory_len(self), TARGET)
             ELSE -1
        s1 == IF i >= 0 THEN [self EXCEPT !.sp = i] ELSE self
    IN Returns(increment_pc(s1), op, TRUE)

exec_PUSHNZ(self, op) ==
    LET val == IF self.nz THEN 1 ELSE 0
    IN Returns(increment_pc(set_nz(store(decrement_sp(self), val), val)), op, TRUE)

exec_SWAP(self, op) ==
    LET tmp == self.memory[self.sp]
        arch_len == memory_len(self)
        s1 == store(self, self.memory[(self.sp + 1) % arch_len])
        s2 == [s1 EXCEPT !.memory[(s1.sp + 1) % arch_len] = tmp]
    IN Returns(increment_pc(s2), op, TRUE)

exec_PUSH0(self, op) ==
    LET val == 0
    IN Returns(increment_pc(set_nz(store(decrement_sp(self), val), val)), op, TRUE)

(* ADD, SUB, MUL: `a + b`, `a - b`, `a * b` on u8. *)
exec_arith(self, op, overflow_checks) ==
    LET s1 == decrement_sp(self)
        a == s1.memory[(s1.sp + 2) % memory_len(s1)]
        b == s1.memory[(s1.sp + 1) % memory_len(s1)]
        exact == CASE op = ADD -> a + b
                   [] op = SUB -> a - b
                   [] op = MUL -> a * b
        val == u8_wrapping(exact)
    IN IF u8_overflows(op, a, b) /\ overflow_checks
       THEN Panics(s1)
       ELSE Returns(increment_pc(set_nz(store(s1, val), val)), op, TRUE)

exec_DIV(self, op) ==
    LET s1 == decrement_sp(self)
        a == s1.memory[(s1.sp + 2) % memory_len(s1)]
        b == s1.memory[(s1.sp + 1) % memory_len(s1)]
        val == IF b # 0 THEN a \div b ELSE 255
    IN Returns(increment_pc(set_nz(store(s1, val), val)), op, TRUE)

(* XOR, AND, OR: `a ^ b`, `a & b`, `a | b`. *)
exec_bitwise(self, op) ==
    LET s1 == decrement_sp(self)
        a == s1.memory[(s1.sp + 2) % memory_len(s1)]
        b == s1.memory[(s1.sp + 1) % memory_len(s1)]
        val == u8_bits(op, a, b, 8)
    IN Returns(increment_pc(set_nz(store(s1, val), val)), op, TRUE)

(* Variant: the result sets the flag and is not stored. *)
exec_unary_nostore(self, op) ==
    LET v == self.memory[self.sp]
    IN Returns(increment_pc(set_nz(self, u8_wrapping(v + 1))), op, TRUE)

(* Variant: the result narrowed to arch_width bits. *)
exec_unary_trunc(self, op) ==
    LET v == self.memory[self.sp]
        val == (CASE op = INC -> v + 1
                  [] op = DEC -> v + 255
                  [] op = SHL -> v * 2
                  [] op = SHR -> v \div 2
                  [] op = NOT -> u8_not(v)) % (2 ^ self.arch_width)
    IN Returns(increment_pc(set_nz(store(self, val), val)), op, TRUE)

(* INC, DEC, SHL, SHR, NOT: the cell at SP replaced in place. *)
exec_unary(self, op) ==
    LET v == self.memory[self.sp]
        val == CASE op = INC -> u8_wrapping(v + 1)
                 [] op = DEC -> u8_wrapping(v + 255)
                 [] op = SHL -> u8_wrapping(v * 2)
                 [] op = SHR -> v \div 2
                 [] op = NOT -> u8_not(v)
    IN Returns(increment_pc(set_nz(store(self, val), val)), op, TRUE)

(* Variant: the branch never taken. *)
exec_branch_nz_never(self, op) ==
    Returns(increment_pc(self), op, TRUE)

(* BZ, BNZ: one increment, and a second one when the flag matches. *)
exec_branch_nz(self, op) ==
    LET s1 == increment_pc(self)
        taken == IF op = BZ THEN s1.nz = FALSE ELSE s1.nz = TRUE
    IN Returns(IF taken THEN increment_pc(s1) ELSE s1, op, TRUE)

(* BEQ, BGT, BLT, BGE: a = memory[SP + 1], b = memory[SP]. *)
(* Variant: the two words compared the other way round. *)
exec_branch_cmp_swapped(self, op) ==
    LET s1 == increment_pc(self)
        a == s1.memory[s1.sp]
        b == s1.memory[(s1.sp + 1) % memory_len(s1)]
        taken == CASE op = BEQ -> a = b
                   [] op = BGT -> a > b
                   [] op = BLT -> a < b
                   [] op = BGE -> a >= b
    IN Returns(IF taken THEN increment_pc(s1) ELSE s1, op, TRUE)

exec_branch_cmp(self, op) ==
    LET s1 == increment_pc(self)
        a == s1.memory[(s1.sp + 1) % memory_len(s1)]
        b == s1.memory[s1.sp]
        taken == CASE op = BEQ -> a = b
                   [] op = BGT -> a > b
                   [] op = BLT -> a < b
                   [] op = BGE -> a >= b
    IN Returns(IF taken THEN increment_pc(s1) ELSE s1, op, TRUE)

exec_ENDL(self, op) ==
    LET i == scan_backward(self.memory, self.pc, LOOP)
        found == i >= 0
        s1 == IF found THEN [self EXCEPT !.pc = (i + 1) % memory_len(self)] ELSE self
    IN Returns(IF found = FALSE THEN increment_pc(s1) ELSE s1, op, TRUE)

exec_BRAN(self, op) ==
    LET i == IF self.pc < memory_len(self) - 1
             THEN scan_forward(self.memory, self.pc + 1, memory_len(self), TARGET)
             ELSE -1
        found == i >= 0
        s1 == IF found THEN [self EXCEPT !.sp = i] ELSE self
    IN Returns(IF found = FALSE THEN increment_pc(s1) ELSE s1, op, TRUE)

exec_BRAP(self, op) ==
    LET i == scan_backward(self.memory, self.pc, TARGET)
        found == i >= 0
        s1 == IF found THEN [self EXCEPT !.pc = (i + 1) % memory_len(self)] ELSE self
    IN Returns(IF found = FALSE THEN increment_pc(s1) ELSE s1, op, TRUE)

(* Variant: a byte that is not the NOP opcode itself reports failure. *)
exec_NOP_strict(self, op) == Returns(increment_pc(self), op, op = NOP)

exec_NOP(self, op) == Returns(increment_pc(self), op, TRUE)

(* Variant: HALT moves on to the next cell. *)
exec_HALT_advance(self, op) == Returns(increment_pc(self), op, TRUE)

exec_HALT(self, op) == Returns(self, op, TRUE)

(* fn execute: the match on the opcode.  rd and wr are what the reader and *)
(* the writer answer if they are called.                                   *)
execute(self, op, rd, wr, overflow_checks) ==
    CASE op = RESET -> reset(self)
      [] op = HALT -> exec_HALT(self, op)
      [] op = IN_ -> exec_IN(self, op, rd)
      [] op = OUT -> exec_OUT(self, op, wr)
      [] op = POP -> exec_POP(self, op)
      [] op = DUP -> exec_DUP(self, op)
      [] op = PUSHPC -> exec_PUSHPC(self, op)
      [] op = POPPC -> exec_POPPC(self, op)
      [] op = POPSP -> exec_POPSP(self, op)
      [] op = SPTGT -> exec_SPTGT(self, op)
      [] op = PUSHNZ -> exec_PUSHNZ(self, op)
      [] op = SWAP -> exec_SWAP(self, op)
      [] op = PUSH0 -> exec_PUSH0(self, op)
      [] op \in {ADD, SUB, MUL} -> exec_arith(self, op, overflow_checks)
      [] op = DIV -> exec_DIV(self, op)
      [] op \in {XOR, AND, OR} -> exec_bitwise(self, op)
      [] op \in {INC, DEC, SHL, SHR, NOT} -> exec_unary(self, op)
      [] op \in {BZ, BNZ} -> exec_branch_nz(self, op)
      [] op \in {BEQ, BGT, BLT, BGE} -> exec_branch_cmp(self, op)
      [] op = LOOP -> Returns(increment_pc(self), op, TRUE)
      [] op = ENDL -> exec_ENDL(self, op)
      [] op = BRAN -> exec_BRAN(self, op)
      [] op = BRAP -> exec_BRAP(self, op)
      [] op = TARGET -> Returns(increment_pc(self), op, TRUE)
      [] op = SKIP1 -> Returns(increment_pc_n(self, 2), op, TRUE)
      [] op = SKIP2 -> Returns(increment_pc_n(self, 3), op, TRUE)
      [] op = SKIP3 -> Returns(increment_pc_n(self, 4), op, TRUE)
      [] op = SKIP4 -> Returns(increment_pc_n(self, 5), op, TRUE)
      [] op = SKIP5 -> Returns(increment_pc_n(self, 6), op, TRUE)
      [] op = SKIP6 -> Returns(increment_pc_n(self, 7), op, TRUE)
      [] op = SKIP7 -> Returns(increment_pc_n(self, 8), op, TRUE)
      [] op = SKIP8 -> Returns(increment_pc_n(self, 9), op, TRUE)
      [] op = SKIP9 -> Returns(increment_pc_n(self, 10), op, TRUE)
      [] OTHER -> exec_NOP(self, op)

(* fn step: fetch memory[pc] and execute it. *)
step(self, rd, wr, overflow_checks) ==
    LET instr == self.memory[self.pc]
    IN execute(self, instr, rd, wr, overflow_checks)

(* Variant: the registers are reported as after a reset. *)
debug_infos_zeroed(self) ==
    [memory |-> self.memory, pc |-> 0, sp |-> 0, nz |-> FALSE]

(* fn debug_infos: memory.clone() and the three registers. *)
debug_infos(self) ==
    [memory |-> self.memory, pc |-> self.pc, sp |-> self.sp, nz |-> self.nz]

(* A reader over a byte stream: read on a one-byte buffer gives the next   *)
(* byte, or Ok(0) at its end.                                              *)
stream_read(bytes) == IF bytes = <<>> THEN ReadEof ELSE ReadOk(Head(bytes))

(* step on a stream reader and on a writer that accepts every byte; the    *)
(* result also carries the bytes the reader has left.                      *)
step_on(self, bytes, overflow_checks) ==
    LET r == step(self, stream_read(bytes), "Ok", overflow_checks)
    IN [r |-> r,
        rest |-> IF r.consumed = 1 THEN Tail(bytes) ELSE bytes]

(* fn copy_program: the loop writes memory[i] for i in 0..mnemos.len() and *)
(* indexing past the end of memory panics; reset follows the loop.         *)
(* Variant: the source byte stored without translation. *)
translate_raw(byte) == byte

translate(byte) ==
    LET mnemo == byte
    IN IF is_valid_mnemonic(mnemo)
       THEN OpCode_from_Instruction(Instruction_from_Mnemonic(mnemo))
       ELSE mnemo

RECURSIVE copy_loop(_, _, _)
copy_loop(self, mnemos, i) ==
    IF i >= Len(mnemos) THEN Returns(self, NOP, TRUE)
    ELSE IF i >= memory_len(self) THEN Panics(self)
    ELSE copy_loop([self EXCEPT !.memory[i] = translate(mnemos[i + 1])], mnemos, i + 1)

(* Variant: the reset after the loop is left out. *)
copy_program_noreset(self, program) == copy_loop(self, program, 0)

(* Variant: the cells after the program are cleared. *)
copy_program_clearing(self, program) ==
    LET r == copy_loop(self, program, 0)
    IN IF r.panicked THEN r
       ELSE reset([r.self EXCEPT !.memory =
                       [i \in DOMAIN r.self.memory |->
                           IF i >= Len(program) THEN NOP ELSE r.self.memory[i]]])

copy_program(self, program) ==
    LET r == copy_loop(self, program, 0)
    IN IF r.panicked THEN r ELSE reset(r.self)

(* Program::new(input, ignore_last_newline).  input is what read_to_end    *)
(* delivers and read_failed whether it reports an error.  In               *)
(* `if let Some(&endl) = instructions.last()` the name endl is a pattern   *)
(* binding, not a comparison with the local endl: the pattern matches      *)
(* whatever the last byte is, and the byte is popped.                      *)
ErrProgramRead == "Error while trying to read input"

ErrProgramEmpty == "Empty program is not a valid program"

Program_new(input, read_failed, ignore_last_newline) ==
    IF read_failed
    THEN [ok |-> FALSE, err |-> ErrProgramRead, bytes |-> <<>>]
    ELSE IF input = <<>>
    THEN [ok |-> FALSE, err |-> ErrProgramEmpty, bytes |-> <<>>]
    ELSE LET instructions == input
         IN [ok |-> TRUE, err |-> "",
             bytes |-> IF ignore_last_newline /\ Len(instructions) > 0
                       THEN SubSeq(instructions, 1, Len(instructions) - 1)
                       ELSE instructions]

(* Variant: the length limit compared with >= instead of >. *)
Interpreter_new_ge(arch_length, arch_width) ==
    IF arch_length = usize(0, 0) \/ ~usize_gt(u32_MAX, arch_length)
    THEN [ok |-> FALSE, err |-> ErrArchLength]
    ELSE IF arch_width < 6 \/ arch_width > 32
    THEN [ok |-> FALSE, err |-> ErrArchWidth]
    ELSE [ok |-> TRUE, err |-> "",
          self |-> Interpreter(arch_width,
                               IF arch_length.hi = 0 /\ arch_length.lo <= MaxCells
                               THEN [i \in 0 .. arch_length.lo - 1 |-> NOP]
                               ELSE [i \in {} |-> NOP],
                               0, 0, FALSE)]

(* fn new: the two range checks, then arch_length cells of NOP.  A machine  *)
(* longer than MaxCells is constructed   but its cells are not enumerated. *)
Interpreter_new(arch_length, arch_width) ==
    IF arch_length = usize(0, 0) \/ usize_gt(arch_length, u32_MAX)
    THEN [ok |-> FALSE, err |-> ErrArchLength]
    ELSE IF arch_width < 6 \/ arch_width > 32
    THEN [ok |-> FALSE, err |-> ErrArchWidth]
    ELSE [ok |-> TRUE, err |-> "",
          self |-> Interpreter(arch_width,
                               IF arch_length.hi = 0 /\ arch_length.lo <= MaxCells
                               THEN [i \in 0 .. arch_length.lo - 1 |-> NOP]
                               ELSE [i \in {} |-> NOP],
                               0, 0, FALSE)]

(***************************************************************************)
(* struct Debugger of the debugger binary.  d is the record of its fields: *)
(* the Option<Interpreter> (some, self), number_of_cycles and the          *)
(* Option<Statement> (<<>> is None).  Each method gives back the debugger  *)
(* after it and its Result: "Ok", or the DebuggerError variant.            *)
(***************************************************************************)
DEFAULT_ARCH_WIDTH == 8

CYCLE_LIMIT == 200

Debugger(some, self, cycles, stat) ==
    [some |-> some, self |-> self, number_of_cycles |-> cycles, statement |-> stat]

Debugger_new == Debugger(FALSE, NoInterpreter, 0, <<>>)

NoInfos == debug_infos(NoInterpreter)

DbgResult(d, result) ==
    [d |-> d, result |-> result, err |-> "", panicked |-> FALSE,
     executed |-> 0, infos |-> NoInfos, statement |-> <<>>, trace |-> <<>>,
     rest |-> <<>>, written |-> <<>>]

DbgPanic(d) == [DbgResult(d, "panic") EXCEPT !.panicked = TRUE]

(* Variant: a failed creation drops the interpreter held. *)
set_interpreter_dropping(d, arch_length, arch_width) ==
    LET r == Interpreter_new(arch_length, arch_width)
    IN IF ~r.ok
       THEN [DbgResult([d EXCEPT !.some = FALSE, !.self = NoInterpreter],
                       "InterpreterCreation") EXCEPT !.err = r.err]
       ELSE DbgResult([d EXCEPT !.some = TRUE, !.self = r.self], "Ok")

set_interpreter(d, arch_length, arch_width) ==
    LET r == Interpreter_new(arch_length, arch_width)
    IN IF ~r.ok
       THEN [DbgResult(d, "InterpreterCreation") EXCEPT !.err = r.err]
       ELSE DbgResult([d EXCEPT !.some = TRUE, !.self = r.self], "Ok")

unset_interpreter(d) ==
    IF ~d.some
    THEN DbgResult(d, "NoInterpreter")
    ELSE DbgResult([d EXCEPT !.some = FALSE, !.self = NoInterpreter], "Ok")

Debugger_interpreter(d) ==
    IF d.some THEN DbgResult(d, "Ok") ELSE DbgResult(d, "NoInterpreter")

copy_program_and_reset(d, program) ==
    IF d.some
    THEN LET r == copy_program(d.self, program)
         IN IF r.panicked
            THEN DbgPanic([d EXCEPT !.self = r.self])
            ELSE DbgResult([d EXCEPT !.self = reset(r.self).self], "Ok")
    ELSE DbgResult(d, "NoInterpreter")

(* Variant: reset without the interpreter lookup, which reports a RESET    *)
(* statement whether or not there is an interpreter.                       *)
Debugger_reset_lenient(d) ==
    [DbgResult(d, "Ok") EXCEPT !.statement = <<RESET, TRUE>>]

Debugger_reset(d) ==
    IF d.some
    THEN LET r == reset(d.self)
         IN [DbgResult([d EXCEPT !.self = r.self], "Ok")
                EXCEPT !.statement = r.statement]
    ELSE DbgResult(d, "NoInterpreter")

Debugger_debug_infos(d) ==
    IF d.some
    THEN [DbgResult(d, "Ok") EXCEPT !.infos = debug_infos(d.self)]
    ELSE DbgResult(d, "NoInterpreter")

(* One turn of the loop of fn steps on the debugger and reader of acc:     *)
(* the step is made and its Statement kept.                                *)
steps_turn(acc, so) ==
    IF so.r.panicked
    THEN [acc EXCEPT !.d.self = so.r.self, !.panicked = TRUE,
                     !.result = "panic"]
    ELSE [acc EXCEPT !.d.self = so.r.self,
                     !.statement = so.r.statement,
                     !.trace = Append(@, so.r.statement),
                     !.rest = so.rest,
                     !.written = @ \o so.r.written]

(* executed = i + 1; self.number_of_cycles += executed. *)
steps_count(acc, i) ==
    [acc EXCEPT !.executed = i + 1, !.d.number_of_cycles = @ + (i + 1)]

(* Variant: the loop runs on after a HALT. *)
RECURSIVE steps_loop_nobreak(_, _, _, _)
steps_loop_nobreak(i, n, overflow_checks, acc) ==
    IF i >= n THEN acc
    ELSE CHOOSE out \in
           {IF acc1.panicked THEN acc1
            ELSE steps_loop_nobreak(i + 1, n, overflow_checks,
                                    steps_count(acc1, i)) :
              acc1 \in {steps_turn(acc, step_on(acc.d.self, acc.rest,
                                                overflow_checks))}} : TRUE

(* The for loop of fn steps: acc holds the debugger, statement, executed   *)
(* and the reader's remaining bytes as they stand before iteration i; the  *)
(* state after the turn, acc1, is the one element of a set.                *)
RECURSIVE steps_loop(_, _, _, _)
steps_loop(i, n, overflow_checks, acc) ==
    IF i >= n THEN acc
    ELSE CHOOSE out \in
           {IF acc1.panicked THEN acc1
            ELSE IF acc1.statement[1] = HALT THEN acc1
            ELSE steps_loop(i + 1, n, overflow_checks, steps_count(acc1, i)) :
              acc1 \in {steps_turn(acc, step_on(acc.d.self, acc.rest,
                                                overflow_checks))}} : TRUE

(* fn steps.  trace lists the Statements of the interpreter.step calls the *)
(* loop made.                                                              *)
Debugger_steps(d, n, bytes, overflow_checks) ==
    IF d.some
    THEN LET acc == steps_loop(0, n, overflow_checks,
                        [DbgResult(d, "Ok") EXCEPT !.rest = bytes])
         IN IF acc.panicked THEN acc
            ELSE [acc EXCEPT !.infos = debug_infos(acc.d.self)]
    ELSE [DbgResult(d, "NoInterpreter") EXCEPT !.rest = bytes]

(* fn execute, Command::Copy: the program of the file is loaded; when the  *)
(* load reports an error an interpreter of the program's length is set     *)
(* and the load is made again and unwrapped.                               *)
Command_Copy(d, file_opens, bytes, read_failed, ignore_nl) ==
    LET p == Program_new(bytes, read_failed, ignore_nl)
    IN IF ~file_opens \/ ~p.ok
       THEN DbgResult(d, "ProgramError")
       ELSE LET first == copy_program_and_reset(d, p.bytes)
            IN IF first.panicked THEN first
               ELSE IF first.result = "Ok"
               THEN [first EXCEPT !.infos = debug_infos(first.d.self)]
               ELSE LET made == set_interpreter(d, usize(0, Len(p.bytes)),
                                                DEFAULT_ARCH_WIDTH)
                        again == copy_program_and_reset(made.d, p.bytes)
                    IN IF again.panicked \/ again.result # "Ok"
                       THEN DbgPanic(again.d)
                       ELSE [again EXCEPT !.infos = debug_infos(again.d.self)]

(***************************************************************************)
(* State.  arch_width, memory, pc, sp, nz are the fields of the            *)
(* Interpreter the host holds; status tells whether it holds one ("absent" *)
(* before a successful new), whether the machine is one the model steps    *)
(* ("ok") or one too long to enumerate ("large"), and whether a call has   *)
(* panicked.  overflow_checks is the build profile.  loaded and steps      *)
(* bound the run; last records the latest call: its arguments, the state   *)
(* before it, what the reader and writer answered, and what it returned.   *)
(***************************************************************************)
VARIABLES arch_width, memory, pc, sp, nz, status, overflow_checks,
          loaded, steps, last, consumed, output, prog, conv,
          stdin, number_of_cycles, dbg_statement, dbg, snapshot

vars == <<arch_width, memory, pc, sp, nz, status, overflow_checks,
          loaded, steps, last, consumed, output, prog, conv,
          stdin, number_of_cycles, dbg_statement, dbg, snapshot>>

(* stdin is the byte stream a host has opened as its reader.               *)
(* number_of_cycles and dbg_statement are the Debugger's fields of those   *)
(* names (<<>> is None), dbg records its latest command, and snapshot the  *)
(* latest DebugInfos handed out.                                           *)
debugger == <<number_of_cycles, dbg_statement, dbg>>

Self == Interpreter(arch_width, memory, pc, sp, nz)

Call(name, pre, len, width, program, rd, wr, err, statement, panicked) ==
    [call |-> name, pre |-> pre, arch_length |-> len, arch_width |-> width,
     program |-> program, rd |-> rd, wr |-> wr, err |-> err,
     statement |-> statement, panicked |-> panicked]

NoCall ==
    Call("none", NoInterpreter, usize(0, 0), 0, <<>>, NoRead, "none", "",
         <<>>, FALSE)

Install(self) ==
    /\ arch_width' = self.arch_width
    /\ memory' = self.memory
    /\ pc' = self.pc
    /\ sp' = self.sp
    /\ nz' = self.nz

(* Arguments the host may pass. *)
LengthInputs ==
    {usize(0, l) : l \in 0 .. MaxL} \cup {u32_MAX, usize(65536, 0), usize(65536, 1)}

AllWidths == {0, 5, 6, 7, 8, 31, 32, 33}

ByteWidths == {5, 6, 7, 8}

ReadResults(bytes) == {ReadOk(b) : b \in bytes} \cup {ReadEof, ReadErr}

ProgramsOver(alphabet, maxlen) ==
    UNION {[1 .. n -> alphabet] : n \in 1 .. maxlen}

(* The Program the host holds: the arguments of Program::new and what it   *)
(* returned.                                                               *)
NoProgram ==
    [call |-> "none", input |-> <<>>, read_failed |-> FALSE,
     ignore_last_newline |-> FALSE, ok |-> FALSE, err |-> "", bytes |-> <<>>]

(* The latest conversion between opcodes, instructions and mnemonics. *)
NoConversion ==
    [call |-> "none", op |-> 0, char |-> 0, instruction |-> "Nop",
     mnemonic |-> 0, back |-> 0, valid |-> FALSE]

NoInput == [open |-> FALSE, bytes |-> <<>>, source |-> <<>>]

NoSnapshot == [taken |-> FALSE, infos |-> NoInfos, of |-> NoInterpreter]

(* The Debugger as the variables hold it. *)
Dbg == Debugger(status = "ok", Self, number_of_cycles, dbg_statement)

(* The latest command: its arguments, the Debugger, the input position and *)
(* the output before it, and what the method it calls returned.            *)
Command(name, n, r) ==
    [cmd |-> name, count |-> dbg.count + 1, n |-> n, width |-> 0,
     program |-> NoProgram, pre |-> Dbg, pre_input |-> stdin.bytes,
     pre_output |-> output, result |-> r.result, err |-> r.err,
     executed |-> r.executed, infos |-> r.infos, statement |-> r.statement,
     trace |-> r.trace]

NoCommand ==
    [cmd |-> "none", count |-> 0, n |-> 0, width |-> 0, program |-> NoProgram,
     pre |-> Debugger_new, pre_input |-> <<>>,
     pre_output |-> <<>>, result |-> "Ok", err |-> "", executed |-> 0,
     infos |-> NoInfos, statement |-> <<>>, trace |-> <<>>]

InstallDebugger(r) ==
    /\ Install(r.d.self)
    /\ status' = IF r.panicked THEN "panicked"
                 ELSE IF r.d.some THEN "ok" ELSE "absent"
    /\ number_of_cycles' = r.d.number_of_cycles

Init ==
    /\ arch_width = 0
    /\ memory = [i \in {} |-> NOP]
    /\ pc = 0
    /\ sp = 0
    /\ nz = FALSE
    /\ status = "absent"
    /\ overflow_checks \in BOOLEAN
    /\ loaded = FALSE
    /\ steps = 0
    /\ last = NoCall
    /\ consumed = 0
    /\ output = <<>>
    /\ prog = NoProgram
    /\ conv = NoConversion
    /\ stdin = NoInput
    /\ number_of_cycles = 0
    /\ dbg_statement = <<>>
    /\ dbg = NoCommand
    /\ snapshot = NoSnapshot

(* let interpreter = Interpreter::new(arch_length, arch_width) *)
NewOf(lengths, widths) ==
    /\ status = "absent"
    /\ \E len \in lengths, width \in widths :
         LET r == Interpreter_new(len, width)
         IN /\ IF r.ok
               THEN /\ Install(r.self)
                    /\ status' = IF len.hi = 0 /\ len.lo <= MaxCells THEN "ok" ELSE "large"
               ELSE /\ UNCHANGED <<arch_width, memory, pc, sp, nz>>
                    /\ status' = "absent"
            /\ last' = Call("new", NoInterpreter, len, width, <<>>, NoRead,
                            "none", r.err, <<>>, FALSE)
    /\ UNCHANGED <<overflow_checks, loaded, steps, consumed, output, prog, conv>>
    /\ UNCHANGED <<stdin, debugger, snapshot>>

New(widths) == NewOf(LengthInputs, widths)

(* interpreter.copy_program(&program).  The host offers programs up to one  *)
(* byte longer than the memory, and in the specifications without reload   *)
(* one program per constructed machine.                                    *)
CopyProgram(programs, reload) ==
    /\ status = "ok"
    /\ reload \/ ~loaded
    /\ \E program \in programs :
         LET r == copy_program(Self, program)
         IN /\ Len(program) <= memory_len(Self) + 1
            /\ Install(r.self)
            /\ status' = IF r.panicked THEN "panicked" ELSE "ok"
            /\ last' = Call("copy_program", Self, usize(0, 0), 0, program,
                            NoRead, "none", "", <<>>, r.panicked)
    /\ loaded' = TRUE
    /\ UNCHANGED <<overflow_checks, steps, consumed, output, prog, conv>>
    /\ UNCHANGED <<stdin, debugger, snapshot>>

(* interpreter.reset() *)
Reset ==
    /\ status = "ok"
    /\ LET r == reset(Self)
       IN /\ Install(r.self)
          /\ last' = Call("reset", Self, usize(0, 0), 0, <<>>, NoRead, "none",
                          "", r.statement, FALSE)
    /\ UNCHANGED <<status, overflow_checks, loaded, steps, consumed, output,
                   prog, conv>>
    /\ UNCHANGED <<stdin, debugger, snapshot>>

(* interpreter.step(&mut input, &mut output) *)
Step(inputs) ==
    /\ status = "ok"
    /\ steps < MaxSteps
    /\ \E rd \in (IF memory[pc] = IN_ THEN ReadResults(inputs) ELSE {NoRead}),
          wr \in (IF memory[pc] = OUT THEN WriteResults ELSE {"none"}) :
         LET r == step(Self, rd, wr, overflow_checks)
         IN /\ Install(r.self)
            /\ status' = IF r.panicked THEN "panicked" ELSE "ok"
            /\ last' = Call("step", Self, usize(0, 0), 0, <<>>, rd, wr, "",
                            r.statement, r.panicked)
            /\ consumed' = consumed + r.consumed
            /\ output' = output \o r.written
    /\ steps' = steps + 1
    /\ UNCHANGED <<overflow_checks, loaded, prog, conv>>
    /\ UNCHANGED <<stdin, debugger, snapshot>>

(* let program = Program::new(&mut file, ignore_nl), once per run. *)
ProgramNew(streams) ==
    /\ prog.call = "none"
    /\ \E input \in streams, read_failed \in BOOLEAN, ignore_nl \in BOOLEAN :
         LET r == Program_new(input, read_failed, ignore_nl)
         IN prog' = [call |-> "new", input |-> input,
                     read_failed |-> read_failed,
                     ignore_last_newline |-> ignore_nl,
                     ok |-> r.ok, err |-> r.err, bytes |-> r.bytes]
    /\ UNCHANGED <<arch_width, memory, pc, sp, nz, status, overflow_checks,
                   loaded, steps, last, consumed, output, conv>>
    /\ UNCHANGED <<stdin, debugger, snapshot>>

(* Into::<Mnemonic>::into(Instruction::from(op)) for an opcode byte, and   *)
(* the way back from that mnemonic to an opcode.                           *)
ToMnemonic ==
    /\ \E op \in 0 .. 255 :
         LET m == Mnemonic_from_Instruction(Instruction_from_OpCode(op))
         IN conv' = [call |-> "to_mnemonic", op |-> op, char |-> m,
                     instruction |-> Instruction_from_OpCode(op),
                     mnemonic |-> m,
                     back |-> OpCode_from_Instruction(Instruction_from_Mnemonic(m)),
                     valid |-> is_valid_mnemonic(m)]
    /\ UNCHANGED <<arch_width, memory, pc, sp, nz, status, overflow_checks,
                   loaded, steps, last, consumed, output, prog>>
    /\ UNCHANGED <<stdin, debugger, snapshot>>

(* Instruction::from(c) and is_valid_mnemonic(c) for a character. *)
FromMnemonic(chars) ==
    /\ \E c \in chars :
         LET i == Instruction_from_Mnemonic(c)
         IN conv' = [call |-> "from_mnemonic", op |-> OpCode_from_Instruction(i),
                     char |-> c, instruction |-> i,
                     mnemonic |-> Mnemonic_from_Instruction(i),
                     back |-> OpCode_from_Instruction(i),
                     valid |-> is_valid_mnemonic(c)]
    /\ UNCHANGED <<arch_width, memory, pc, sp, nz, status, overflow_checks,
                   loaded, steps, last, consumed, output, prog>>
    /\ UNCHANGED <<stdin, debugger, snapshot>>

(* The host opens the byte stream its commands and steps read from,       *)
(* before the first of them.                                               *)
OpenInput(streams) ==
    /\ ~stdin.open
    /\ dbg.cmd = "none"
    /\ steps = 0
    /\ \E bytes \in streams : stdin' = [open |-> TRUE, bytes |-> bytes, source |-> bytes]
    /\ UNCHANGED <<arch_width, memory, pc, sp, nz, status, overflow_checks,
                   loaded, steps, last, consumed, output, prog, conv,
                   debugger, snapshot>>

(* let infos = interpreter.debug_infos(), which the host then keeps. *)
DebugInfos ==
    /\ status = "ok"
    /\ ~snapshot.taken
    /\ snapshot' = [taken |-> TRUE, infos |-> debug_infos(Self), of |-> Self]
    /\ last' = Call("debug_infos", Self, usize(0, 0), 0, <<>>, NoRead, "none",
                    "", <<>>, FALSE)
    /\ UNCHANGED <<arch_width, memory, pc, sp, nz, status, overflow_checks,
                   loaded, steps, consumed, output, prog, conv, stdin, debugger>>

(* Debugger::execute, one action per Command.  A command that the          *)
(* interpreter state does not concern leaves it alone.                     *)
CmdSetInterpreter(lengths, widths) ==
    /\ status \in {"absent", "ok"}
    /\ dbg.count < MaxCommands
    /\ \E len \in lengths, width \in widths :
         LET r == set_interpreter(Dbg, usize(0, len), width)
         IN /\ InstallDebugger(r)
            /\ dbg' = [Command("set_interpreter", len, r) EXCEPT !.width = width]
    /\ UNCHANGED <<overflow_checks, loaded, steps, last, consumed, output, prog,
                   conv, stdin, dbg_statement, snapshot>>

CmdUnsetInterpreter ==
    /\ status \in {"absent", "ok"}
    /\ dbg.count < MaxCommands
    /\ LET r == unset_interpreter(Dbg)
       IN /\ InstallDebugger(r)
          /\ dbg' = Command("unset_interpreter", 0, r)
    /\ UNCHANGED <<overflow_checks, loaded, steps, last, consumed, output, prog,
                   conv, stdin, dbg_statement, snapshot>>

CmdInfosInterpreter ==
    /\ status \in {"absent", "ok"}
    /\ dbg.count < MaxCommands
    /\ dbg' = Command("interpreter", 0, Debugger_interpreter(Dbg))
    /\ UNCHANGED <<arch_width, memory, pc, sp, nz, status, overflow_checks,
                   loaded, steps, last, consumed, output, prog, conv, stdin,
                   number_of_cycles, dbg_statement, snapshot>>

CmdInfos ==
    /\ status \in {"absent", "ok"}
    /\ dbg.count < MaxCommands
    /\ LET r == Debugger_debug_infos(Dbg)
       IN /\ dbg' = Command("infos", 0, r)
    /\ UNCHANGED <<arch_width, memory, pc, sp, nz, status, overflow_checks,
                   loaded, steps, last, consumed, output, prog, conv, stdin,
                   number_of_cycles, dbg_statement, snapshot>>

CmdCopy(streams) ==
    /\ status \in {"absent", "ok"}
    /\ dbg.count < MaxCommands
    /\ \E file_opens \in BOOLEAN, bytes \in streams, read_failed \in BOOLEAN,
          ignore_nl \in BOOLEAN :
         LET r == Command_Copy(Dbg, file_opens, bytes, read_failed, ignore_nl)
             p == Program_new(bytes, read_failed, ignore_nl)
         IN /\ ~file_opens => bytes = <<>> /\ ~read_failed /\ ~ignore_nl
            /\ read_failed => bytes = <<>> /\ ~ignore_nl
            /\ InstallDebugger(r)
            /\ dbg' = [Command("copy", 0, r) EXCEPT
                         !.program = IF file_opens
                                     THEN [call |-> "new", input |-> bytes,
                                           read_failed |-> read_failed,
                                           ignore_last_newline |-> ignore_nl,
                                           ok |-> p.ok, err |-> p.err,
                                           bytes |-> p.bytes]
                                     ELSE NoProgram]
    /\ UNCHANGED <<overflow_checks, loaded, steps, last, consumed, output, prog,
                   conv, stdin, dbg_statement, snapshot>>

CmdReset ==
    /\ status \in {"absent", "ok"}
    /\ dbg.count < MaxCommands
    /\ LET r == Debugger_reset(Dbg)
       IN /\ InstallDebugger(r)
          /\ dbg' = Command("reset", 0, r)
          /\ dbg_statement' = IF r.result = "Ok" THEN r.statement
                              ELSE dbg_statement
    /\ UNCHANGED <<overflow_checks, loaded, steps, last, consumed, output, prog,
                   conv, stdin, snapshot>>

CmdStep(counts) ==
    /\ status \in {"absent", "ok"}
    /\ dbg.count < MaxCommands
    /\ \E n \in counts :
         LET r == Debugger_steps(Dbg, n, stdin.bytes, overflow_checks)
         IN /\ steps + n <= MaxSteps
            /\ InstallDebugger(r)
            /\ dbg' = Command("step", n, r)
            /\ dbg_statement' = IF r.result = "Ok" THEN r.statement
                                ELSE dbg_statement
            /\ stdin' = [stdin EXCEPT !.bytes = r.rest]
            /\ consumed' = consumed + (Len(stdin.bytes) - Len(r.rest))
            /\ output' = output \o r.written
            /\ steps' = steps + Len(r.trace)
    /\ UNCHANGED <<overflow_checks, loaded, last, prog, conv, snapshot>>

(***************************************************************************)
(* Specifications.  They differ in the programs and input bytes the host   *)
(* supplies.  Spec: every one-byte program, and every two-byte program     *)
(* that starts with a stack or arithmetic mnemonic.                        *)
(***************************************************************************)
AllMnemonics == {b \in 0 .. 255 : is_valid_mnemonic(b)}

FirstMnemonics ==
    {mnemonics_IN, mnemonics_PUSH0, mnemonics_POP, mnemonics_POPPC,
     mnemonics_POPSP, mnemonics_ADD, mnemonics_INC}

WidePrograms ==
    {<<b>> : b \in 0 .. 255} \cup {<<a, b>> : a \in FirstMnemonics, b \in AllMnemonics}

WideInputs == {0, 1, TARGET, 100, 200, 255}

Next ==
    \/ New(ByteWidths)
    \/ CopyProgram(WidePrograms, FALSE)
    \/ Reset
    \/ Step(WideInputs)

Spec == Init /\ [][Next]_vars

(* SpecNew: every width around the two limits; short programs of NOP and   *)
(* INC so that the constructed machine also runs.                          *)
NewPrograms == ProgramsOver({mnemonics_NOP, mnemonics_INC}, MaxL + 1)

NextNew ==
    \/ New(AllWidths)
    \/ CopyProgram(NewPrograms, FALSE)
    \/ Reset
    \/ Step({0})

SpecNew == Init /\ [][NextNew]_vars

(* SpecArith: programs of IN, ADD, SUB and MUL on an 8-bit machine. *)
ArithPrograms ==
    ProgramsOver({mnemonics_IN, mnemonics_ADD, mnemonics_SUB, mnemonics_MUL},
                 MaxL + 1)

ArithInputs == {0, 1, 16, 100, 200}

NextArith ==
    \/ New({8})
    \/ CopyProgram(ArithPrograms, FALSE)
    \/ Reset
    \/ Step(ArithInputs)

SpecArith == Init /\ [][NextArith]_vars

(* SpecForward: the forward marker searches, BRAN and SPTGT. *)
ForwardPrograms ==
    ProgramsOver({mnemonics_BRAN, mnemonics_SPTGT, mnemonics_TARGET,
                  mnemonics_NOP}, MaxL + 1)

NextForward ==
    \/ New(ByteWidths)
    \/ CopyProgram(ForwardPrograms, FALSE)
    \/ Reset
    \/ Step({0})

SpecForward == Init /\ [][NextForward]_vars

(* SpecBackward: the backward marker searches, ENDL and BRAP. *)
BackwardPrograms ==
    ProgramsOver({mnemonics_ENDL, mnemonics_BRAP, mnemonics_LOOP,
                  mnemonics_TARGET, mnemonics_NOP}, MaxL + 1)

NextBackward ==
    \/ New(ByteWidths)
    \/ CopyProgram(BackwardPrograms, FALSE)
    \/ Reset
    \/ Step({0})

SpecBackward == Init /\ [][NextBackward]_vars

(* SpecDiv: programs of IN, PUSH0 and DIV on machines of 6, 7 and 8 bits. *)
DivPrograms ==
    ProgramsOver({mnemonics_IN, mnemonics_PUSH0, mnemonics_DIV}, MaxL + 1)

DivInputs == {0, 1, 2, 7, 255}

NextDiv ==
    \/ New({6, 7, 8})
    \/ CopyProgram(DivPrograms, FALSE)
    \/ Reset
    \/ Step(DivInputs)

SpecDiv == Init /\ [][NextDiv]_vars

(* SpecProgram: the host builds the Program from a byte stream, as the     *)
(* binaries do, and loads it.                                              *)
Streams ==
    {<<>>} \cup ProgramsOver({10, 13, mnemonics_INC, mnemonics_HALT}, MaxL)

NextProgram ==
    \/ ProgramNew(Streams)
    \/ New({8})
    \/ CopyProgram(IF prog.ok THEN {prog.bytes} ELSE {}, FALSE)
    \/ Reset
    \/ Step({0})

SpecProgram == Init /\ [][NextProgram]_vars

(* SpecReload: a machine that is loaded again while it runs. *)
ReloadPrograms == ProgramsOver({mnemonics_IN, mnemonics_NOP}, MaxL)

NextReload ==
    \/ New({8})
    \/ CopyProgram(ReloadPrograms, TRUE)
    \/ Reset
    \/ Step({1})

SpecReload == Init /\ [][NextReload]_vars

(* SpecSnapshot: the host takes the DebugInfos of its machine at some      *)
(* point, before or after the load, and keeps it while the machine runs.   *)
SnapshotPrograms ==
    ProgramsOver({mnemonics_IN, mnemonics_INC, mnemonics_NOP}, MaxL)

NextSnapshot ==
    \/ New({8})
    \/ CopyProgram(SnapshotPrograms, FALSE)
    \/ Reset
    \/ Step({0, 1})
    \/ DebugInfos

SpecSnapshot == Init /\ [][NextSnapshot]_vars

(* SpecFacade: the commands of the debugger, on program files of INC and  *)
(* HALT, with a one-byte input stream.                                     *)
FacadeFiles ==
    {<<>>} \cup ProgramsOver({mnemonics_INC, mnemonics_HALT}, 2)

NextFacade ==
    \/ OpenInput({<<7>>})
    \/ CmdSetInterpreter(0 .. 2, {5, 7})
    \/ CmdUnsetInterpreter
    \/ CmdInfosInterpreter
    \/ CmdInfos
    \/ CmdCopy(FacadeFiles)
    \/ CmdReset
    \/ CmdStep(0 .. MaxSteps)

SpecFacade == Init /\ [][NextFacade]_vars

(* SpecMnemonic: the conversions on every opcode byte and every character  *)
(* a program byte can be, and two characters beyond them.                  *)
Chars == 0 .. 255 \cup {956, 8364}

NextMnemonic ==
    \/ ToMnemonic
    \/ FromMnemonic(Chars)

SpecMnemonic == Init /\ [][NextMnemonic]_vars

(***************************************************************************)
(* Properties.                                                             *)
(***************************************************************************)
L == memory_len(Self)

(* One turn of the host's run loop: a step of the loaded machine on the    *)
(* opened input and a writer that accepts every byte; the loop is left at  *)
(* the first HALT and after CYCLE_LIMIT turns.                             *)
Halted == last.call = "step" /\ ~last.panicked /\ last.statement[1] = HALT

Cycle ==
    /\ status = "ok"
    /\ loaded
    /\ stdin.open
    /\ steps < CYCLE_LIMIT
    /\ ~Halted
    /\ LET so == step_on(Self, stdin.bytes, overflow_checks)
           r == so.r
       IN /\ Install(r.self)
          /\ status' = IF r.panicked THEN "panicked" ELSE "ok"
          /\ last' = Call("step", Self, usize(0, 0), 0, <<>>,
                          IF memory[pc] = IN_ THEN stream_read(stdin.bytes)
                          ELSE NoRead,
                          IF memory[pc] = OUT THEN "Ok" ELSE "none", "",
                          r.statement, r.panicked)
          /\ consumed' = consumed + r.consumed
          /\ output' = output \o r.written
          /\ stdin' = [stdin EXCEPT !.bytes = so.rest]
    /\ steps' = steps + 1
    /\ UNCHANGED <<overflow_checks, loaded, prog, conv, debugger, snapshot>>

(* The sample runs: a machine of 4 or of 15 cells and width 8, loaded once *)
(* with a sample program and run by the host's loop on an input stream.    *)
EchoProgram ==
    <<mnemonics_LOOP, mnemonics_IN, mnemonics_BNZ, mnemonics_HALT,
      mnemonics_OUT, mnemonics_ENDL>>

WrapProgram == <<mnemonics_INC, mnemonics_INC, mnemonics_INC, mnemonics_INC>>

SkipProgram ==
    <<mnemonics_NOP, mnemonics_SKIP2, mnemonics_NOP, mnemonics_NOP,
      mnemonics_NOP, mnemonics_HALT>>

EchoStreams == {<<>>} \cup ProgramsOver({0, 65, 66}, MaxInput)

(* SpecScenario: the wraparound and the skip program, which read nothing. *)
NextScenario ==
    \/ NewOf({usize(0, 4), usize(0, 15)}, {8})
    \/ CopyProgram({WrapProgram, SkipProgram}, FALSE)
    \/ OpenInput({<<>>, <<65>>})
    \/ Cycle

SpecScenario == Init /\ [][NextScenario]_vars

(* SpecEcho: the echo program on every stream of up to MaxInput bytes.     *)
(* The host is a sequential program: whatever it can do next, it does.     *)
NextEcho ==
    \/ NewOf({usize(0, 15)}, {8})
    \/ CopyProgram({EchoProgram}, FALSE)
    \/ OpenInput(EchoStreams)
    \/ Cycle

SpecEcho == Init /\ [][NextEcho]_vars /\ WF_vars(NextEcho)

Stepped == last.call = "step"

Copied == last.call = "copy_program"

(* The byte the latest step fetched: memory[pc] before the step. *)
Fetched == last.pre.memory[last.pre.pc]

SetMin(S) == CHOOSE x \in S : \A y \in S : x <= y

SetMax(S) == CHOOSE x \in S : \A y \in S : x >= y

(* Indices after / before the PC of the latest step that held `marker`. *)
MarkersAfter(marker) ==
    {i \in DOMAIN last.pre.memory : i > last.pre.pc /\ last.pre.memory[i] = marker}

MarkersBefore(marker) ==
    {i \in DOMAIN last.pre.memory : i < last.pre.pc /\ last.pre.memory[i] = marker}

(* C1: whenever an interpreter exists (after new, reset, copy_program and  *)
(* every step, of any opcode), 0 <= PC < L and 0 <= SP < L.  A machine too *)
(* long to enumerate has never been stepped and has PC = SP = 0.           *)
C1_PcSpInRange ==
    /\ status \in {"ok", "panicked"} => pc \in 0 .. L - 1 /\ sp \in 0 .. L - 1
    /\ status = "large" => pc = 0 /\ sp = 0

(* A POPPC has loaded a cell value that is not an index of the memory. *)
C1_Witness ==
    /\ Stepped
    /\ Fetched = POPPC
    /\ last.pre.memory[last.pre.sp] >= L
    /\ status = "ok"

(* C2: a step always returns a Statement; it never panics, not even for    *)
(* ADD, SUB and MUL whose exact result lies outside the cell range.        *)
C2_StepNeverFaults ==
    Stepped => ~last.panicked /\ Len(last.statement) = 2

(* C3: every memory cell holds a value below 2^W. *)
C3_CellsBelowTwoToW ==
    status \in {"ok", "panicked"} =>
        \A i \in DOMAIN memory : memory[i] < 2 ^ arch_width

(* C4: a step on a byte outside 0 .. 45 acts as NOP: PC advances by one    *)
(* modulo L, SP, NZ and memory keep their values, neither the reader nor   *)
(* the writer is called, and the statement reports success.                *)
C4_UnknownByteIsNop ==
    Stepped /\ Fetched \notin 0 .. 45 =>
        /\ ~last.panicked
        /\ pc = (last.pre.pc + 1) % L
        /\ sp = last.pre.sp
        /\ nz = last.pre.nz
        /\ memory = last.pre.memory
        /\ last.rd = NoRead
        /\ last.wr = "none"
        /\ last.statement[2] = TRUE

C4_Witness ==
    /\ Stepped
    /\ Fetched \notin 0 .. 45
    /\ last.pre.pc = L - 1
    /\ last.pre.nz

(* C5: after copy_program(p) with p.len() <= L, cell i holds the opcode    *)
(* number of p[i] when p[i] is one of the 46 mnemonic characters (its      *)
(* place in the table of mnemonics) and the byte p[i] itself otherwise.    *)
OpcodeOfMnemonic(c) ==
    (CHOOSE k \in 1 .. Len(ALL_MNEMONICS) : ALL_MNEMONICS[k] = c) - 1

C6_TooLargeRejected ==
    Copied /\ Len(last.program) > memory_len(last.pre) =>
        /\ ~last.panicked
        /\ Self = last.pre

C8_BranToNextTarget ==
    Stepped /\ Fetched = BRAN =>
        pc = IF MarkersAfter(TARGET) # {}
             THEN (SetMin(MarkersAfter(TARGET)) + 1) % L
             ELSE (last.pre.pc + 1) % L

(* C9: SPTGT sets SP to the first TARGET after PC, leaves SP alone when    *)
(* there is none, advances PC by one modulo L and keeps NZ and memory.     *)
C9_SptgtSetsSp ==
    Stepped /\ Fetched = SPTGT =>
        /\ sp = IF MarkersAfter(TARGET) # {}
                THEN SetMin(MarkersAfter(TARGET))
                ELSE last.pre.sp
        /\ pc = (last.pre.pc + 1) % L
        /\ nz = last.pre.nz
        /\ memory = last.pre.memory

(* SPTGT run with two TARGETs ahead of it: SP is now at the nearer one. *)
C9_Witness ==
    /\ Stepped
    /\ Fetched = SPTGT
    /\ Cardinality(MarkersAfter(TARGET)) >= 2
    /\ sp # last.pre.sp

(* C10: ENDL (marker LOOP) and BRAP (marker TARGET) move PC to one past    *)
(* the last marker before PC, and to PC + 1 modulo L when no cell before   *)
(* PC holds the marker.                                                    *)
C10_BackwardBranch ==
    Stepped /\ Fetched \in {ENDL, BRAP} =>
        LET marker == IF Fetched = ENDL THEN LOOP ELSE TARGET
        IN pc = IF MarkersBefore(marker) # {}
                THEN SetMax(MarkersBefore(marker)) + 1
                ELSE (last.pre.pc + 1) % L

(* ENDL or BRAP run with two of its markers before PC. *)
C10_Witness ==
    /\ Stepped
    /\ Fetched \in {ENDL, BRAP}
    /\ Cardinality(MarkersBefore(IF Fetched = ENDL THEN LOOP ELSE TARGET)) >= 2

(* C11: IN at the end of the input moves SP down by one modulo L, stores 0 *)
(* at the new SP, clears NZ, advances PC by one, and returns the Statement *)
(* (IN, false).                                                            *)
C11_InAtEofFails ==
    Stepped /\ Fetched = IN_ /\ last.rd = ReadEof =>
        /\ sp = (last.pre.sp + L - 1) % L
        /\ memory[sp] = 0
        /\ nz = FALSE
        /\ pc = (last.pre.pc + 1) % L
        /\ last.statement = <<IN_, FALSE>>

(* The operands of a DIV step as the code reads them: the divisor is the   *)
(* cell at SP and the dividend the cell above it.                          *)
Divisor == last.pre.memory[last.pre.sp]

Dividend == last.pre.memory[(last.pre.sp + 1) % L]

(* C12: DIV by zero does not fault, sets NZ, and leaves the quotient       *)
(* 2^W - 1 and the remainder 0 in the two result cells SP and SP + 1.      *)
C12_DivByZero ==
    Stepped /\ Fetched = DIV /\ Divisor = 0 /\ L >= 2 =>
        /\ ~last.panicked
        /\ nz = TRUE
        /\ {memory[sp], memory[(sp + 1) % L]} = {2 ^ arch_width - 1, 0}

(* C13: DIV by a non-zero divisor moves SP down by one, stores the         *)
(* quotient at SP + 1 and the remainder at SP, sets NZ to quotient # 0 and *)
(* advances PC by one (on a memory of at least two cells, where the two    *)
(* result cells differ).                                                   *)
C13_DivStoresBoth ==
    Stepped /\ Fetched = DIV /\ Divisor # 0 /\ L >= 2 =>
        /\ sp = (last.pre.sp + L - 1) % L
        /\ memory[(sp + 1) % L] = Dividend \div Divisor
        /\ memory[sp] = Dividend % Divisor
        /\ nz = (Dividend \div Divisor # 0)
        /\ pc = (last.pre.pc + 1) % L

(* C14: reset, called directly or executed as the RESET opcode by step,    *)
(* sets PC = 0, SP = 0, NZ = false, keeps every memory cell and returns    *)
(* Statement(RESET, true); on a state that is already reset it changes     *)
(* nothing, so a second reset gives the state of the first.                *)
C14_ResetClearsRegisters ==
    last.call = "reset" \/ (Stepped /\ Fetched = RESET) =>
        /\ pc = 0 /\ sp = 0 /\ nz = FALSE
        /\ memory = last.pre.memory
        /\ arch_width = last.pre.arch_width
        /\ last.statement = <<RESET, TRUE>>
        /\ last.pre.pc = 0 /\ last.pre.sp = 0 /\ ~last.pre.nz => Self = last.pre

(* reset called on a machine whose three registers had all moved. *)
C14_Witness ==
    /\ last.call = "reset"
    /\ last.pre.pc # 0
    /\ last.pre.sp # 0
    /\ last.pre.nz
    /\ \E i \in DOMAIN memory : memory[i] # NOP

(* C18: a HALT step leaves PC, SP, NZ and memory as they were and returns  *)
(* Statement(HALT, true); PC therefore still points at the HALT cell, and  *)
(* the next step is a HALT step again.                                     *)
C18_HaltChangesNothing ==
    Stepped /\ Fetched = HALT =>
        /\ Self = last.pre
        /\ last.statement = <<HALT, TRUE>>
        /\ memory[pc] = HALT

(* The third step of a run halts at cell 1: the machine reached the HALT   *)
(* there and stayed on it.                                                 *)
C18_Witness ==
    /\ Stepped
    /\ Fetched = HALT
    /\ last.pre.pc = 1
    /\ steps = 3
    /\ memory[0] # HALT

(* C16: the Statement a step returns reports failure exactly when the step *)
(* is an IN whose reader, or an OUT whose writer, answered with an error;  *)
(* such a step has still moved SP and advanced PC by one, and the machine  *)
(* can be stepped again.                                                   *)
FailedIn == Fetched = IN_ /\ last.rd.res = "Err"

FailedOut == Fetched = OUT /\ last.wr = "Err"

C16_FailureOnlyOnIoError ==
    Stepped /\ ~last.panicked =>
        /\ (last.statement[2] = FALSE) <=> (FailedIn \/ FailedOut)
        /\ FailedIn =>
             /\ sp = (last.pre.sp + L - 1) % L
             /\ pc = (last.pre.pc + 1) % L
             /\ status = "ok"
        /\ FailedOut =>
             /\ sp = (last.pre.sp + 1) % L
             /\ pc = (last.pre.pc + 1) % L
             /\ status = "ok"

(* An OUT whose writer failed, with steps still to run. *)
C16_Witness ==
    /\ Stepped
    /\ FailedOut
    /\ last.statement = <<OUT, FALSE>>
    /\ L >= 2
    /\ steps < MaxSteps

(* C17: a step takes at most one byte from the input, and only when it     *)
(* executes IN; the output grows only when an OUT is executed, by exactly  *)
(* the byte that memory[SP] held before the step, and every OUT whose      *)
(* writer accepts the byte appends it.                                     *)
C17_OneBytePerStep ==
    [][/\ consumed' \in {consumed, consumed + 1}
       /\ consumed' # consumed => steps' = steps + 1 /\ memory[pc] = IN_
       /\ output' # output =>
            /\ steps' = steps + 1
            /\ memory[pc] = OUT
            /\ output' = Append(output, memory[sp])
       /\ steps' = steps + 1 /\ memory[pc] = OUT /\ last'.wr = "Ok" =>
            output' = Append(output, memory[sp])]_vars

(* A byte read by IN and then echoed by OUT. *)
C17_Witness ==
    /\ Stepped
    /\ Fetched = OUT
    /\ consumed = 1
    /\ output = <<100>>

(* C15: an opcode in 0 .. 45 turned into its mnemonic and back is the same *)
(* opcode, and its mnemonic is a valid one; the 46 mnemonics are pairwise  *)
(* distinct; a character that is none of the 46 entries of the table of    *)
(* mnemonics converts to Nop and is reported invalid.                      *)
C15_MnemonicRoundTrip ==
    /\ conv.call = "to_mnemonic" /\ conv.op \in 0 .. 45 =>
         /\ conv.back = conv.op
         /\ conv.valid
    /\ Cardinality({Mnemonic_from_Instruction(Instruction_from_OpCode(op)) :
                        op \in 0 .. 45}) = 46
    /\ conv.call = "from_mnemonic"
         /\ ~(\E k \in 1 .. Len(ALL_MNEMONICS) : ALL_MNEMONICS[k] = conv.char) =>
         /\ conv.instruction = "Nop"
         /\ conv.op = NOP
         /\ ~conv.valid

(* The last opcode has gone to its mnemonic '9' and come back. *)
C15_Witness ==
    /\ conv.call = "to_mnemonic"
    /\ conv.op = SKIP9
    /\ conv.mnemonic = mnemonics_SKIP9
    /\ conv.back = SKIP9

(* C19: a Program that Program::new returns holds at least one byte, and   *)
(* an empty stream is rejected.                                            *)
C19_ProgramNotEmpty ==
    prog.call = "new" =>
        /\ prog.ok => Len(prog.bytes) >= 1
        /\ prog.input = <<>> => ~prog.ok

(* The input without one trailing line feed, and without the carriage      *)
(* return before it.                                                       *)
WithoutNewline(input) ==
    IF input # <<>> /\ input[Len(input)] = 10
    THEN {SubSeq(input, 1, Len(input) - 1)} \cup
         (IF Len(input) >= 2 /\ input[Len(input) - 1] = 13
          THEN {SubSeq(input, 1, Len(input) - 2)} ELSE {})
    ELSE {input}

(* C20: Program::new keeps the input bytes when the flag is unset, and     *)
(* with the flag set removes at most one trailing line feed, possibly with *)
(* the carriage return before it; an input that does not end in a line     *)
(* feed is kept whole.                                                     *)
C20_OnlyNewlineRemoved ==
    prog.call = "new" /\ prog.ok =>
        /\ ~prog.ignore_last_newline => prog.bytes = prog.input
        /\ prog.ignore_last_newline => prog.bytes \in WithoutNewline(prog.input)

(* The interpreter after k steps on a stream reader, one step at a time.   *)
RECURSIVE RunSteps(_, _, _)
RunSteps(self, bytes, k) ==
    IF k = 0 THEN self
    ELSE LET so == step_on(self, bytes, overflow_checks)
         IN RunSteps(so.r.self, so.rest, k - 1)

(* C21: a step(n) command that returns has made at most n steps, one after *)
(* the other, and none after a HALT; the count it returns is the number of *)
(* steps that were not HALT, and is n when no HALT occurred; the statement *)
(* it returns is the last one executed, HALT when it stopped early; the    *)
(* snapshot is the interpreter after the last step.                        *)
C21_StepsStopAtHalt ==
    dbg.cmd = "step" /\ dbg.result = "Ok" =>
        LET t == dbg.trace
            halts == {i \in 1 .. Len(t) : t[i][1] = HALT}
        IN /\ Len(t) <= dbg.n
           /\ \A i \in halts : i = Len(t)
           /\ dbg.executed = Cardinality({i \in 1 .. Len(t) : t[i][1] # HALT})
           /\ halts = {} => dbg.executed = dbg.n
           /\ halts # {} => dbg.statement[1] = HALT
           /\ dbg.statement = IF t = <<>> THEN <<>> ELSE t[Len(t)]
           /\ Self = RunSteps(dbg.pre.self, dbg.pre_input, Len(t))
           /\ dbg.infos = [memory |-> memory, pc |-> pc, sp |-> sp, nz |-> nz]

(* step(3) that stopped at a HALT after one other instruction. *)
C21_Witness ==
    /\ dbg.cmd = "step"
    /\ dbg.n = 3
    /\ dbg.executed = 1
    /\ dbg.statement = <<HALT, TRUE>>
    /\ Len(dbg.trace) = 2

(* C22: without an interpreter, unset_interpreter, reset, step(n) and      *)
(* infos return NoInterpreter and change nothing: the interpreter stays    *)
(* absent, the cycle counter and the last statement keep their values, no  *)
(* input is consumed and no output written.                                *)
C22_NoInterpreterError ==
    dbg.cmd \in {"unset_interpreter", "reset", "step", "infos"} /\ ~dbg.pre.some =>
        /\ dbg.result = "NoInterpreter"
        /\ status = "absent"
        /\ Dbg = dbg.pre
        /\ stdin.bytes = dbg.pre_input
        /\ output = dbg.pre_output

(* step(2) on a debugger that has run a step and then lost its             *)
(* interpreter, with input waiting.                                        *)
C22_Witness ==
    /\ dbg.cmd = "step"
    /\ dbg.n = 2
    /\ ~dbg.pre.some
    /\ number_of_cycles > 0
    /\ dbg_statement # <<>>
    /\ stdin.bytes # <<>>

(* C23: loading a program that Program::new has built never panics; with  *)
(* no interpreter one of the program's length and of width 8 is created    *)
(* and holds the translated program with PC = SP = 0 and NZ = false; an    *)
(* existing interpreter keeps its length and width.                        *)
C23_LoadProgram ==
    dbg.cmd = "copy" /\ dbg.program.call = "new" /\ dbg.program.ok =>
        /\ dbg.result # "panic"
        /\ status = "ok"
        /\ ~dbg.pre.some =>
             /\ L = Len(dbg.program.bytes)
             /\ arch_width = 8
             /\ \A i \in 1 .. Len(dbg.program.bytes) : memory[i - 1] = translate(dbg.program.bytes[i])
             /\ pc = 0 /\ sp = 0 /\ nz = FALSE
        /\ dbg.pre.some =>
             /\ L = memory_len(dbg.pre.self)
             /\ arch_width = dbg.pre.self.arch_width

(* C24: the DebugInfos a call of debug_infos returned holds the memory,    *)
(* PC, SP and NZ the interpreter had at the call, whatever the interpreter *)
(* has done since; the call itself leaves the interpreter as it was.       *)
C24_SnapshotIsCopy ==
    /\ snapshot.taken =>
         snapshot.infos = [memory |-> snapshot.of.memory, pc |-> snapshot.of.pc,
                           sp |-> snapshot.of.sp, nz |-> snapshot.of.nz]
    /\ last.call = "debug_infos" => Self = last.pre /\ snapshot.of = Self

(* A snapshot taken of a running machine that has since been stepped and   *)
(* reset.                                                                  *)
C24_Witness ==
    /\ snapshot.taken
    /\ last.call = "reset"
    /\ snapshot.infos.pc # 0
    /\ snapshot.infos.nz
    /\ snapshot.infos.memory # memory

(* C28: a copy_program that returns leaves the cells from the program's    *)
(* length on as they were.                                                 *)
C28_TailKept ==
    Copied /\ ~last.panicked =>
        \A i \in DOMAIN memory :
            i >= Len(last.program) => memory[i] = last.pre.memory[i]

(* A one-byte program loaded over a longer one, whose second cell stays. *)
C28_Witness ==
    /\ Copied
    /\ ~last.panicked
    /\ Len(last.program) = 1
    /\ L >= 2
    /\ memory[1] # NOP
    /\ memory[0] # last.pre.memory[0]

(* C29: a copy_program that returns leaves PC = 0, SP = 0 and NZ = false.  *)
C29_CopyResets ==
    Copied /\ ~last.panicked => pc = 0 /\ sp = 0 /\ nz = FALSE

(* A load into a machine whose three registers had all moved. *)
C29_Witness ==
    /\ Copied
    /\ ~last.panicked
    /\ last.pre.pc # 0
    /\ last.pre.sp # 0
    /\ last.pre.nz

(* The machine of `len` cells holds `program` in its first cells. *)
Holds(program, len) ==
    /\ loaded
    /\ L = len
    /\ \A i \in 1 .. Len(program) : memory[i - 1] = translate(program[i])

(* The bytes of a stream before its first zero byte. *)
BeforeZero(bytes) ==
    LET zeros == {i \in 1 .. Len(bytes) : bytes[i] = 0}
        k == IF zeros = {} THEN Len(bytes) + 1
             ELSE CHOOSE i \in zeros : \A j \in zeros : i <= j
    IN SubSeq(bytes, 1, k - 1)

(* C25: the echo program on 15 cells of width 8 runs to a HALT on every    *)
(* input, and has then written exactly the input bytes before the first    *)
(* zero byte (all of them when there is none); on 0x41 0x42 0x00 the HALT  *)
(* is one of the first 60 steps.                                           *)
C25_EchoUntilZero ==
    /\ [](Holds(EchoProgram, 15) /\ Halted => output = BeforeZero(stdin.source))
    /\ [](Holds(EchoProgram, 15) /\ Halted /\ stdin.source = <<65, 66, 0>>
              => steps <= 60 /\ output = <<65, 66>>)
    /\ (Holds(EchoProgram, 15) /\ stdin.open) ~> Halted

(* The echo of "AB" has halted. *)
C25_Witness ==
    /\ Holds(EchoProgram, 15)
    /\ Halted
    /\ stdin.source = <<65, 66, 0>>
    /\ output = <<65, 66>>
    /\ stdin.bytes = <<>>

(* The four INC of the wraparound program, the first of which the steps    *)
(* overwrite.                                                              *)
WrapRun ==
    /\ loaded
    /\ L = 4
    /\ \A i \in 1 .. 3 : memory[i] = INC

(* C26 as stated: after 4 steps of `....` on 4 cells memory[0] = 4.        *)
C26_WrapCountsFour ==
    WrapRun /\ steps = 4 => memory[0] = 4 /\ pc = 0 /\ sp = 0

(* C26: after 4 steps of `....` on 4 cells of width 8, PC = 0 and SP = 0   *)
(* again and memory[0] holds the opcode of INC plus 4.                     *)
C26_WrapAddsFour ==
    WrapRun /\ steps = 4 => memory[0] = INC + 4 /\ pc = 0 /\ sp = 0

(* The fourth step of the wraparound program is done. *)
C26_Witness ==
    /\ WrapRun
    /\ steps = 4
    /\ last.statement = <<INC, TRUE>>
    /\ memory[0] = 20

(* C27 as stated: NOP, then SKIP2 which lands on the HALT cell, so that    *)
(* HALT is the third statement; nothing is written.                        *)
C27_HaltIsThird ==
    Holds(SkipProgram, 15) =>
        /\ steps = 1 => last.statement = <<NOP, TRUE>>
        /\ steps = 2 => last.statement = <<SKIP2, TRUE>> /\ memory[pc] = HALT
        /\ steps = 3 => last.statement = <<HALT, TRUE>>
        /\ output = <<>>

(* C27: `;2;;;H` on 15 cells executes NOP, then SKIP2 which sets PC to 4,  *)
(* the NOP before the HALT cell, so that HALT is the fourth statement and  *)
(* the last; nothing is written.                                           *)
C27_HaltIsFourth ==
    Holds(SkipProgram, 15) =>
        /\ steps = 1 => last.statement = <<NOP, TRUE>> /\ pc = 1
        /\ steps = 2 => last.statement = <<SKIP2, TRUE>> /\ pc = 4
        /\ steps = 3 => last.statement = <<NOP, TRUE>> /\ pc = 5
        /\ steps = 4 => last.statement = <<HALT, TRUE>> /\ pc = 5
        /\ steps <= 4
        /\ output = <<>>

(* The skip program has halted. *)
C27_Witness ==
    /\ Holds(SkipProgram, 15)
    /\ steps = 4
    /\ Halted
    /\ stdin.open

(* The value a pushing opcode stores: the byte read by IN (0 when the read *)
(* gave none), the cell at SP for DUP, PC as u8 for PUSHPC, the flag for   *)
(* PUSHNZ, 0 for PUSH0.                                                    *)
Pushed ==
    CASE Fetched = IN_ -> IF last.rd.res = "Ok" /\ last.rd.n = 1
                          THEN last.rd.byte ELSE 0
      [] Fetched = DUP -> last.pre.memory[last.pre.sp]
      [] Fetched = PUSHPC -> last.pre.pc % 256
      [] Fetched = PUSHNZ -> IF last.pre.nz THEN 1 ELSE 0
      [] Fetched = PUSH0 -> 0

(* C30: a step of IN, DUP, PUSHPC, PUSHNZ or PUSH0 moves SP to             *)
(* (SP - 1) mod L and stores its value there, which from SP = 0 is cell    *)
(* L - 1; a step of POP, OUT or POPPC moves SP to (SP + 1) mod L; and a    *)
(* POP executed after a push gives back the SP of before the push.         *)
C30_PushPopSp ==
    Stepped /\ ~last.panicked =>
        /\ Fetched \in {IN_, DUP, PUSHPC, PUSHNZ, PUSH0} =>
              /\ sp = (last.pre.sp + L - 1) % L
              /\ memory[sp] = Pushed
              /\ \A i \in DOMAIN memory : i # sp => memory[i] = last.pre.memory[i]
              /\ last.pre.sp = 0 => sp = L - 1 /\ memory[L - 1] = Pushed
              /\ execute(Self, POP, NoRead, "none", overflow_checks).self.sp
                    = last.pre.sp
        /\ Fetched \in {POP, OUT, POPPC} =>
              /\ sp = (last.pre.sp + 1) % L
              /\ memory = last.pre.memory

(* A POP that follows the first push after a load, on more than one cell:  *)
(* SP went from 0 to L - 1 and is 0 again.                                 *)
C30_Witness ==
    /\ Stepped
    /\ Fetched = POP
    /\ L >= 2
    /\ steps = 2
    /\ last.pre.sp = L - 1
    /\ last.pre.memory[L - 1] = 0
    /\ sp = 0

(* C32: PUSHPC, POPPC, POPSP, SPTGT, PUSHNZ and SWAP leave NZ as it was. *)
C32_NzUnchanged ==
    Stepped /\ ~last.panicked
            /\ Fetched \in {PUSHPC, POPPC, POPSP, SPTGT, PUSHNZ, SWAP} =>
        nz = last.pre.nz

ControlOpcodes ==
    {NOP, LOOP, TARGET, BZ, BNZ, BEQ, BGT, BLT, BGE, ENDL, BRAN, BRAP,
     SKIP1, SKIP2, SKIP3, SKIP4, SKIP5, SKIP6, SKIP7, SKIP8, SKIP9}

(* C33: a step of a control opcode leaves SP, NZ and every memory cell as  *)
(* they were.                                                              *)
C33_ControlChangesOnlyPc ==
    Stepped /\ ~last.panicked /\ Fetched \in ControlOpcodes =>
        /\ sp = last.pre.sp
        /\ nz = last.pre.nz
        /\ memory = last.pre.memory

(* The exact result of a binary opcode on the older word a and the top     *)
(* word b.                                                                 *)
Exact(op, a, b) ==
    CASE op = ADD -> a + b
      [] op = SUB -> a - b
      [] op = MUL -> a * b
      [] op \in {XOR, AND, OR} -> u8_bits(op, a, b, 8)

(* C34: ADD, SUB, MUL, XOR, AND and OR move SP to (SP - 1) mod L and store *)
(* there (a op b) mod 2^W, where a = memory[(SP + 1) mod L] and            *)
(* b = memory[SP] before the step; NZ tells whether the result is not 0,   *)
(* PC advances by one and no other cell is written.                        *)
C34_BinaryOps ==
    Stepped /\ ~last.panicked
            /\ Fetched \in {ADD, SUB, MUL, XOR, AND, OR} =>
        LET a == last.pre.memory[(last.pre.sp + 1) % L]
            b == last.pre.memory[last.pre.sp]
            result == Exact(Fetched, a, b) % (2 ^ arch_width)
        IN /\ sp = (last.pre.sp + L - 1) % L
           /\ memory[sp] = result
           /\ nz = (result # 0)
           /\ pc = (last.pre.pc + 1) % L
           /\ \A i \in DOMAIN memory : i # sp => memory[i] = last.pre.memory[i]

(* C35: INC, DEC, SHL, NOT and SHR store at SP the result narrowed to W     *)
(* bits, for W from 6 to 8, and NZ tells whether it is not 0.              *)
C35_UnaryTruncates ==
    Stepped /\ ~last.panicked /\ arch_width \in 6 .. 8
            /\ Fetched \in {INC, DEC, SHL, NOT, SHR} =>
        LET v == last.pre.memory[last.pre.sp]
            m == 2 ^ arch_width
            result == CASE Fetched = INC -> (v + 1) % m
                        [] Fetched = DEC -> (v - 1) % m
                        [] Fetched = SHL -> (2 * v) % m
                        [] Fetched = NOT -> m - 1 - v
                        [] Fetched = SHR -> v \div 2
        IN /\ memory[sp] = result
           /\ nz = (result # 0)

(* The condition of a conditional branch in the state before the step. *)
BranchHolds ==
    LET a == last.pre.memory[(last.pre.sp + 1) % L]
        b == last.pre.memory[last.pre.sp]
    IN CASE Fetched = BZ -> ~last.pre.nz
         [] Fetched = BNZ -> last.pre.nz
         [] Fetched = BEQ -> a = b
         [] Fetched = BGT -> a > b
         [] Fetched = BLT -> a < b
         [] Fetched = BGE -> a >= b

(* C36: BZ, BNZ, BEQ, BGT, BLT and BGE set PC to (PC + 2) mod L when their *)
(* condition holds and to (PC + 1) mod L when it does not.                 *)
C36_ConditionalBranches ==
    Stepped /\ Fetched \in {BZ, BNZ, BEQ, BGT, BLT, BGE} =>
        /\ ~last.panicked
        /\ pc = IF BranchHolds THEN (last.pre.pc + 2) % L
                ELSE (last.pre.pc + 1) % L

(* A BGT on three cells whose older word is the greater: the branch wraps  *)
(* to cell 0.                                                              *)
C36_Witness ==
    /\ Stepped
    /\ Fetched = BGT
    /\ L = 3
    /\ last.pre.pc = 1
    /\ last.pre.memory[(last.pre.sp + 1) % L] > last.pre.memory[last.pre.sp]
    /\ pc = 0

(* C37: SKIPn sets PC to (PC + n + 1) mod L and changes nothing else. *)
C37_SkipWraps ==
    Stepped /\ Fetched \in SKIP1 .. SKIP9 =>
        LET n == Fetched - SKIP1 + 1
        IN /\ ~last.panicked
           /\ pc = (last.pre.pc + n + 1) % L
           /\ sp = last.pre.sp
           /\ nz = last.pre.nz
           /\ memory = last.pre.memory
           /\ last.rd = NoRead
           /\ last.wr = "none"

(* SKIP9 at cell 1 of three cells: eleven cells on, three times round. *)
C37_Witness ==
    /\ Stepped
    /\ Fetched = SKIP9
    /\ L = 3
    /\ last.pre.pc = 1
    /\ pc = 2

(* C38: the opcode of the Statement a step returns is in 0 .. 45: the      *)
(* opcode of the cell executed, and NOP for a cell holding another byte.   *)
C38_StatementDecoded ==
    Stepped /\ ~last.panicked =>
        /\ last.statement[1] \in 0 .. 45
        /\ last.statement[1] = IF Fetched \in 0 .. 45 THEN Fetched ELSE NOP
        /\ Fetched \notin 0 .. 45 => last.statement = <<NOP, TRUE>>

(* The step just made, made again by an interpreter of width w2 with the   *)
(* same memory, PC, SP and NZ, on a reader that answers the same and a     *)
(* writer that answers wr2.                                                *)
TwinStep(w2, wr2) ==
    step([last.pre EXCEPT !.arch_width = w2], last.rd, wr2, overflow_checks)

(* The twin has returned the same Statement, written the same bytes, taken *)
(* as many bytes of input and is in the same state.                        *)
SameOutcome(t) ==
    LET mine == step(last.pre, last.rd, last.wr, overflow_checks)
    IN /\ t.panicked = last.panicked
       /\ t.statement = last.statement
       /\ t.written = mine.written
       /\ t.consumed = mine.consumed
       /\ t.self.memory = memory
       /\ t.self.pc = pc
       /\ t.self.sp = sp
       /\ t.self.nz = nz

C39_CyclesCountSteps ==
    /\ dbg.cmd = "step" /\ dbg.result = "Ok" =>
          number_of_cycles = dbg.pre.number_of_cycles + dbg.executed
    /\ dbg.cmd \in {"reset", "copy", "set_interpreter", "unset_interpreter"} =>
          number_of_cycles = dbg.pre.number_of_cycles

(* C40: set_interpreter with a length or width that Interpreter::new       *)
(* refuses returns InterpreterCreation and leaves the debugger, with the   *)
(* interpreter it may hold, as it was; with a length and width it accepts, *)
(* the debugger holds a fresh interpreter of that length and width, all    *)
(* cells NOP, PC = SP = 0 and NZ = false.                                  *)
C40_SetInterpreter ==
    dbg.cmd = "set_interpreter" =>
        IF dbg.n >= 1 /\ dbg.width \in 6 .. 32
        THEN /\ dbg.result = "Ok"
             /\ status = "ok"
             /\ L = dbg.n
             /\ arch_width = dbg.width
             /\ \A i \in DOMAIN memory : memory[i] = NOP
             /\ pc = 0 /\ sp = 0 /\ nz = FALSE
        ELSE /\ dbg.result = "InterpreterCreation"
             /\ dbg.err # ""
             /\ Dbg = dbg.pre

(* A refused set_interpreter on a debugger whose interpreter had run. *)
C40_Witness ==
    /\ dbg.cmd = "set_interpreter"
    /\ dbg.result = "InterpreterCreation"
    /\ dbg.pre.some
    /\ status = "ok"
    /\ pc # 0
    /\ memory[0] # NOP
====
